---- MODULE Spec2Model ----
(***************************************************************************)
(* Number guessing game (src/src/bin/main.rs): the GuessingGame round      *)
(* state machine driven by the egui front end, and the top-5 high score    *)
(* store kept in highscores.json.                                          *)
(*                                                                         *)
(* Texts are sequences of one-character strings.  Instants are whole ticks *)
(* counted from the start of the round in play (the program only ever      *)
(* subtracts two of them); a date is the ordinal of the win it stamps (0:   *)
(* an entry older than this run).  The file is held as the value serde_json *)
(* decodes from it ("valid" with its entries), or as "absent", or as       *)
(* "corrupt" (any bytes that do not deserialize to Vec<HighScore>).        *)
(***************************************************************************)
EXTENDS Integers, Sequences, FiniteSets, TLC

\* ------------------------------------------------------------------------
\* Bounds of the model
\* ------------------------------------------------------------------------
MaxTime == 1        \* a round lasts 0..MaxTime ticks
MaxAttempts == 2    \* charged guesses per round
MaxWins == 1        \* rounds won per run

\* ------------------------------------------------------------------------
\* Program constants
\* ------------------------------------------------------------------------
Easy == 50
Medium == 100
Hard == 200
DefaultDifficulty == 100
TopN == 5

Tiers == {Easy, Medium, Hard}

\* rand::thread_rng().gen_range(lo..=hi), sampled at the two ends and the
\* middle of the range.
gen_range(lo, hi) == {lo, (lo + hi) \div 2, hi}

\* Instant::now(): the origin of time is the start of the round in play.
RoundStart == 0

\* Instant::now() read while a round started at instant s is in play.
Instants(s) == s..(s + MaxTime)

\* ------------------------------------------------------------------------
\* Texts: u32 formatting and str::parse::<u32>
\* ------------------------------------------------------------------------
DigitChars == <<"0", "1", "2", "3", "4", "5", "6", "7", "8", "9">>

IsDigit(c) == \E i \in 1..10 : DigitChars[i] = c

DigitVal(c) == (CHOOSE i \in 1..10 : DigitChars[i] = c) - 1

\* u32::to_string
RECURSIVE to_string(_)
to_string(n) ==
  IF n < 10 THEN <<DigitChars[n + 1]>>
  ELSE Append(to_string(n \div 10), DigitChars[(n % 10) + 1])

\* The decimal digits of u32::MAX = 4294967295.
U32MaxDigits == <<4, 2, 9, 4, 9, 6, 7, 2, 9, 5>>

RECURSIVE StripZeros(_)
StripZeros(ds) ==
  IF ds # <<>> /\ Head(ds) = 0 THEN StripZeros(Tail(ds)) ELSE ds

RECURSIVE LexLeq(_, _)
LexLeq(a, b) ==
  IF a = <<>> THEN TRUE
  ELSE IF Head(a) < Head(b) THEN TRUE
  ELSE IF Head(a) > Head(b) THEN FALSE
  ELSE LexLeq(Tail(a), Tail(b))

\* The digits denote a value that fits in 32 bits.
FitsU32(ds) ==
  LET sig == StripZeros(ds) IN
    \/ Len(sig) < Len(U32MaxDigits)
    \/ Len(sig) = Len(U32MaxDigits) /\ LexLeq(sig, U32MaxDigits)

RECURSIVE DigitsValue(_, _)
DigitsValue(ds, acc) ==
  IF ds = <<>> THEN acc ELSE DigitsValue(Tail(ds), acc * 10 + Head(ds))

ParseErr == [ok |-> FALSE, val |-> 0]

\* str::parse::<u32>: an optional leading "+", then one or more ASCII
\* digits, nothing else (no sign "-", no blanks); Err on overflow.
parse_u32(t) ==
  IF t = <<>> THEN ParseErr
  ELSE LET body == IF Head(t) = "+" THEN Tail(t) ELSE t IN
    IF body = <<>> \/ \E i \in 1..Len(body) : ~IsDigit(body[i]) THEN ParseErr
    ELSE LET ds == [i \in 1..Len(body) |-> DigitVal(body[i])] IN
      IF ~FitsU32(ds) THEN ParseErr
      ELSE [ok |-> TRUE, val |-> DigitsValue(ds, 0)]

\* ------------------------------------------------------------------------
\* High score entries and the ranking of save_score
\* ------------------------------------------------------------------------
HighScore(a, s, d, t) == [attempts |-> a, seconds |-> s, difficulty |-> d, date |-> t]

\* The comparator of scores.sort_by: a.attempts.cmp(b.attempts)
\*   .then(a.seconds.partial_cmp(b.seconds)) is Less.
ScoreLess(a, b) ==
  \/ a.attempts < b.attempts
  \/ a.attempts = b.attempts /\ a.seconds < b.seconds

\* Mutant of InsertStable: x is put before the entries that compare equal.
RECURSIVE InsertBeforeEqual(_, _)
InsertBeforeEqual(s, x) ==
  IF s = <<>> THEN <<x>>
  ELSE IF ~ScoreLess(Head(s), x) THEN <<x>> \o s
  ELSE <<Head(s)>> \o InsertBeforeEqual(Tail(s), x)

\* x put behind every entry that does not compare greater than x.
RECURSIVE InsertStable(_, _)
InsertStable(s, x) ==
  IF s = <<>> THEN <<x>>
  ELSE IF ScoreLess(x, Head(s)) THEN <<x>> \o s
  ELSE <<Head(s)>> \o InsertStable(Tail(s), x)

\* slice::sort_by, a stable sort.
RECURSIVE SortFrom(_, _)
SortFrom(done, rest) ==
  IF rest = <<>> THEN done
  ELSE SortFrom(InsertStable(done, Head(rest)), Tail(rest))

sort_by(s) == SortFrom(<<>>, s)

\* Mutant of truncate: an off-by-one length keeps one entry too many.
truncate_keeps_one_more(s, n) == IF Len(s) > n + 1 THEN SubSeq(s, 1, n + 1) ELSE s

\* Mutant of truncate: the last n entries are kept, not the first.
truncate_keeps_tail(s, n) == IF Len(s) > n THEN SubSeq(s, Len(s) - n + 1, Len(s)) ELSE s

\* Vec::truncate
truncate(s, n) == IF Len(s) > n THEN SubSeq(s, 1, n) ELSE s

\* ------------------------------------------------------------------------
\* State
\* ------------------------------------------------------------------------
VARIABLES
  secret_number,   \* GuessingGame.secret_number
  current_guess,   \* GuessingGame.current_guess, the text field
  message,         \* GuessingGame.message, the outcome shown to the player
  attempts,        \* GuessingGame.attempts
  difficulty,      \* GuessingGame.difficulty, the tier's upper bound
  game_won,        \* GuessingGame.game_won
  high_scores,     \* GuessingGame.high_scores, the leaderboard on display
  start_time,      \* GuessingGame.start_time
  highscore_file,  \* the contents of HIGHSCORE_FILE
  wins,            \* rounds won so far (bounds the run)
  store_fresh,     \* history: the store was absent or empty at startup
  save_log,        \* history: the scores handed to save_score this round
  save_result,     \* history: "none", or this round's save: "ok", Err of "load"/"write"
  wellformed,      \* history: parseable guesses submitted this round before the win
  submitted        \* history: the guess submitted by the last step, if any

game == <<secret_number, current_guess, message, attempts, difficulty,
          game_won, high_scores, start_time>>
history == <<wins, store_fresh, save_log, save_result, wellformed, submitted>>
vars == <<game, highscore_file, history>>

\* ------------------------------------------------------------------------
\* Messages (the outcome of a guess as the player sees it)
\* ------------------------------------------------------------------------
Msg(k, n, s) == [kind |-> k, n |-> n, secs |-> s]
\* "Guess a number between 1 and {}!"
MsgPrompt(d) == Msg("Prompt", d, 0)
\* "Please enter a number between 1 and {}!"  (OutOfRange)
MsgRange(d) == Msg("OutOfRange", d, 0)
\* "Higher!"  (TooLow)
MsgHigher == Msg("Higher", 0, 0)
\* "Lower!"  (TooHigh)
MsgLower == Msg("Lower", 0, 0)
\* "Correct! You won in {} attempts and {:.2} seconds!"
MsgCorrect(a, s) == Msg("Correct", a, s)
\* "Please enter a valid number!"  (InvalidFormat)
MsgInvalid == Msg("InvalidFormat", 0, 0)

\* ------------------------------------------------------------------------
\* The high score store
\* ------------------------------------------------------------------------
FileAbsent == [state |-> "absent", scores |-> <<>>]
FileCorrupt == [state |-> "corrupt", scores |-> <<>>]
FileValid(s) == [state |-> "valid", scores |-> s]

\* Mutant of load_high_scores: a missing file is created empty on the way.
load_high_scores_creates(f) ==
  IF f.state = "valid" THEN [ok |-> TRUE, val |-> f.scores, file |-> f]
  ELSE IF f.state = "absent"
    THEN [ok |-> TRUE, val |-> <<>>, file |-> [state |-> "valid", scores |-> <<>>]]
  ELSE [ok |-> FALSE, val |-> <<>>, file |-> f]

\* Mutant of load_high_scores: a missing file is an error like any other.
load_high_scores_needs_file(f) ==
  IF f.state = "valid" THEN [ok |-> TRUE, val |-> f.scores, file |-> f]
  ELSE [ok |-> FALSE, val |-> <<>>, file |-> f]

\* load_high_scores on file f: the decoded entries, the empty Vec when the
\* file is not found, Err when its contents do not deserialize; and the
\* file afterwards (fs::read_to_string only reads).
load_high_scores(f) ==
  IF f.state = "valid" THEN [ok |-> TRUE, val |-> f.scores, file |-> f]
  ELSE IF f.state = "absent" THEN [ok |-> TRUE, val |-> <<>>, file |-> f]
  ELSE [ok |-> FALSE, val |-> <<>>, file |-> f]

\* Result::unwrap_or_default on a loaded leaderboard.
unwrap_or_default(r) == IF r.ok THEN r.val ELSE <<>>

\* What fs::write can do: write everything; fail to open the file, leaving
\* it as it was; fail after the truncating open, leaving undecodable bytes.
WriteOutcomes == {"written", "denied", "partial"}

\* Mutant of save_score: Err of the load is taken for an empty board
\* (unwrap_or_default for `?`).
save_score_over_corrupt(f, score, w) ==
  LET loaded == load_high_scores(f)
      scores == truncate(sort_by(Append(unwrap_or_default(loaded), score)), TopN)
  IN
    IF w = "written" THEN [ok |-> TRUE, err |-> "none", file |-> FileValid(scores)]
    ELSE IF w = "denied" THEN [ok |-> FALSE, err |-> "write", file |-> loaded.file]
    ELSE [ok |-> FALSE, err |-> "write", file |-> FileCorrupt]

\* save_score(score) on file f with write outcome w: the Result (err tells
\* the failed load from the failed write) and the file afterwards.
save_score(f, score, w) ==
  LET loaded == load_high_scores(f) IN
    IF ~loaded.ok THEN [ok |-> FALSE, err |-> "load", file |-> loaded.file]
    ELSE LET scores == truncate(sort_by(Append(loaded.val, score)), TopN) IN
      IF w = "written" THEN [ok |-> TRUE, err |-> "none", file |-> FileValid(scores)]
      ELSE IF w = "denied" THEN [ok |-> FALSE, err |-> "write", file |-> loaded.file]
      ELSE [ok |-> FALSE, err |-> "write", file |-> FileCorrupt]

\* ------------------------------------------------------------------------
\* Stores the program may find at startup
\* ------------------------------------------------------------------------
\* A full, ranked board; a round of this model can score above its first
\* entry, level with its last one, or below it.
StoreFull ==
  <<HighScore(1, 1, Easy, 0), HighScore(2, 0, Medium, 0), HighScore(2, 0, Hard, 0),
    HighScore(2, 1, Easy, 0), HighScore(2, 1, Medium, 0)>>

\* A hand-edited file: six entries, out of order.
StoreUnsorted ==
  <<HighScore(3, 0, Hard, 0), HighScore(1, 2, Easy, 0), HighScore(4, 1, Medium, 0),
    HighScore(2, 2, Hard, 0), HighScore(1, 0, Medium, 0), HighScore(3, 1, Easy, 0)>>

InitStores ==
  {FileAbsent, FileCorrupt, FileValid(StoreFull), FileValid(StoreUnsorted)}

\* ------------------------------------------------------------------------
\* Guess texts the player types
\* ------------------------------------------------------------------------
GuessNumbers == {0, 1, 25, 50, 51, 75, 100, 101, 150, 200, 201}

GuessTexts ==
  {to_string(n) : n \in GuessNumbers} \cup
  { <<>>, <<"a", "b", "c">>, <<"-", "5">>, <<"+", "1">>, <<" ", "5">>,
    <<"0", "5", "0">>,
    <<"4", "2", "9", "4", "9", "6", "7", "2", "9", "6">> }

\* What each of these texts parses to.
Parsed == [t \in GuessTexts |-> parse_u32(t)]

\* ---- The console reader ----

WhiteSpace == {" ", "\n"}

RECURSIVE trim_start(_)
trim_start(t) ==
  IF t # <<>> /\ Head(t) \in WhiteSpace THEN trim_start(Tail(t)) ELSE t

RECURSIVE trim_end(_)
trim_end(t) ==
  IF t # <<>> /\ t[Len(t)] \in WhiteSpace THEN trim_end(SubSeq(t, 1, Len(t) - 1)) ELSE t

\* str::trim
trim(t) == trim_end(trim_start(t))

UpperChars == <<"Q", "U", "I", "T">>

LowerChars == <<"q", "u", "i", "t">>

\* str::to_lowercase, on the letters of the lines below.
to_lowercase(t) ==
  [i \in 1..Len(t) |->
     IF \E k \in 1..Len(UpperChars) : UpperChars[k] = t[i]
     THEN LowerChars[CHOOSE k \in 1..Len(UpperChars) : UpperChars[k] = t[i]]
     ELSE t[i]]

\* get_guess on one line read: the process exits on q/quit, Err on a text
\* that is no u32 or on a number outside 1..=100, Ok(n) otherwise.
get_guess(line) ==
  LET input == to_lowercase(trim(line)) IN
    IF input = <<"q">> \/ input = <<"q", "u", "i", "t">>
    THEN [kind |-> "exit", val |-> 0]
    ELSE LET parsed == parse_u32(input) IN
      IF ~parsed.ok THEN [kind |-> "InvalidInput", val |-> 0]
      ELSE IF parsed.val \in 1..100 THEN [kind |-> "Ok", val |-> parsed.val]
      ELSE [kind |-> "OutOfRange", val |-> 0]

\* ------------------------------------------------------------------------
\* History of the last submission (read by the properties only)
\* ------------------------------------------------------------------------
\* Where the text t stands against the round in play, judged on the text
\* and the state alone.
Classify(t) ==
  LET p == Parsed[t] IN
    IF ~p.ok THEN "malformed"
    ELSE IF game_won THEN "after_win"
    ELSE IF p.val < 1 THEN "below_range"
    ELSE IF p.val > difficulty THEN "above_range"
    ELSE IF p.val < secret_number THEN "below_secret"
    ELSE IF p.val > secret_number THEN "above_secret"
    ELSE "secret"

\* The fields a submission is compared against afterwards.
Snapshot ==
  [attempts |-> attempts, secret_number |-> secret_number, game_won |-> game_won,
   difficulty |-> difficulty, start_time |-> start_time,
   high_scores |-> high_scores, highscore_file |-> highscore_file,
   save_log |-> save_log]

Submission(t) ==
  [class |-> Classify(t), exact |-> (t = to_string(secret_number)), before |-> Snapshot]

NoSubmission ==
  [class |-> "none", exact |-> FALSE,
   before |-> [attempts |-> 0, secret_number |-> 0, game_won |-> FALSE,
               difficulty |-> 0, start_time |-> 0, high_scores |-> <<>>,
               highscore_file |-> FileAbsent, save_log |-> <<>>]]

\* ------------------------------------------------------------------------
\* GuessingGame
\* ------------------------------------------------------------------------
\* GuessingGame::default
Init ==
  /\ \E found \in InitStores :
       LET loaded == load_high_scores(found) IN
       /\ highscore_file = loaded.file
       /\ high_scores = unwrap_or_default(loaded)
       /\ store_fresh = (loaded.ok /\ loaded.val = <<>>)
  /\ secret_number \in gen_range(1, 100)
  /\ current_guess = <<>>
  /\ message = MsgPrompt(100)
  /\ attempts = 0
  /\ difficulty = DefaultDifficulty
  /\ game_won = FALSE
  /\ start_time = RoundStart
  /\ wins = 0
  /\ save_log = <<>>
  /\ save_result = "none"
  /\ wellformed = 0
  /\ submitted = NoSubmission

\* Mutant of new_game: the attempts of the round before are kept.
new_game_keeps_attempts(d) ==
  /\ secret_number' \in gen_range(1, d)
  /\ current_guess' = <<>>
  /\ message' = MsgPrompt(d)
  /\ UNCHANGED attempts
  /\ game_won' = FALSE
  /\ start_time' = RoundStart

\* GuessingGame::new_game with self.difficulty = d on entry.
new_game(d) ==
  /\ secret_number' \in gen_range(1, d)
  /\ current_guess' = <<>>
  /\ message' = MsgPrompt(d)
  /\ attempts' = 0
  /\ game_won' = FALSE
  /\ start_time' = RoundStart

\* The history of a round starts over with the round.
RoundHistoryReset ==
  /\ save_log' = <<>>
  /\ save_result' = "none"
  /\ wellformed' = 0
  /\ submitted' = NoSubmission

\* Mutant of cmp: the operands swapped, self.secret_number.cmp(&guess).
cmp_swapped(a, b) == IF b < a THEN "Less" ELSE IF b > a THEN "Greater" ELSE "Equal"

\* Ordering of u32: guess.cmp(&self.secret_number).
cmp(a, b) == IF a < b THEN "Less" ELSE IF a > b THEN "Greater" ELSE "Equal"

\* Mutant of out_of_range: the upper bound itself is refused (>= for >).
out_of_range_refuses_bound(guess, d) == guess < 1 \/ guess >= d

\* Mutant of out_of_range: the bound of the default tier is wired in, as it
\* is in the console reader.
out_of_range_fixed_100(guess, d) == guess < 1 \/ guess > 100

\* The range check of check_guess: guess < 1 || guess > self.difficulty.
out_of_range(guess, d) == guess < 1 \/ guess > d

\* check_guess, the range check has failed: the message, then return.
reject_guess ==
  /\ message' = MsgRange(difficulty)
  /\ UNCHANGED <<game_won, high_scores, highscore_file, wins, save_log, save_result>>

\* check_guess, Ordering::Less and Ordering::Greater: a hint, nothing else.
hint(m) ==
  /\ message' = m
  /\ UNCHANGED <<game_won, high_scores, highscore_file, wins, save_log, save_result>>

\* check_guess, Ordering::Equal: the round is won after a attempts; the
\* clock reads instant, and w is what the write of the store does.
\* Mutant of win: the round is won only once the score is saved.
win_needs_save(a, instant, w) ==
  LET duration == instant - start_time
      score == HighScore(a, duration, difficulty, wins + 1)
      saved == save_score(highscore_file, score, w)
      reloaded == load_high_scores(saved.file)
  IN
  /\ game_won' = saved.ok
  /\ message' = IF saved.ok THEN MsgCorrect(a, duration) ELSE message
  /\ highscore_file' = IF saved.ok THEN reloaded.file ELSE saved.file
  /\ high_scores' = IF saved.ok THEN unwrap_or_default(reloaded) ELSE high_scores
  /\ wins' = wins + 1
  /\ save_log' = Append(save_log, score)
  /\ save_result' = IF saved.ok THEN "ok" ELSE saved.err

\* Mutant of win: after a failed write the board computed for it is put on
\* display.
win_shows_unsaved(a, instant, w) ==
  LET duration == instant - start_time
      score == HighScore(a, duration, difficulty, wins + 1)
      saved == save_score(highscore_file, score, w)
      reloaded == load_high_scores(saved.file)
      computed ==
        truncate(sort_by(Append(load_high_scores(highscore_file).val, score)), TopN)
  IN
  /\ game_won' = TRUE
  /\ message' = MsgCorrect(a, duration)
  /\ highscore_file' = IF saved.ok THEN reloaded.file ELSE saved.file
  /\ high_scores' =
       IF saved.ok THEN unwrap_or_default(reloaded)
       ELSE IF saved.err = "write" THEN computed
       ELSE high_scores
  /\ wins' = wins + 1
  /\ save_log' = Append(save_log, score)
  /\ save_result' = IF saved.ok THEN "ok" ELSE saved.err

\* Mutant of win: the board on display is not reloaded after the save.
win_keeps_board(a, instant, w) ==
  LET duration == instant - start_time
      score == HighScore(a, duration, difficulty, wins + 1)
      saved == save_score(highscore_file, score, w)
  IN
  /\ game_won' = TRUE
  /\ message' = MsgCorrect(a, duration)
  /\ highscore_file' = saved.file
  /\ high_scores' = high_scores
  /\ wins' = wins + 1
  /\ save_log' = Append(save_log, score)
  /\ save_result' = IF saved.ok THEN "ok" ELSE saved.err

win(a, instant, w) ==
  LET duration == instant - start_time
      score == HighScore(a, duration, difficulty, wins + 1)
      saved == save_score(highscore_file, score, w)
      reloaded == load_high_scores(saved.file)
  IN
  /\ game_won' = TRUE
  /\ message' = MsgCorrect(a, duration)
  /\ highscore_file' = IF saved.ok THEN reloaded.file ELSE saved.file
  /\ high_scores' = IF saved.ok THEN unwrap_or_default(reloaded) ELSE high_scores
  /\ wins' = wins + 1
  /\ save_log' = Append(save_log, score)
  /\ save_result' = IF saved.ok THEN "ok" ELSE saved.err

\* check_guess, `if !self.game_won`: a well-formed guess in an open round.
play(guess) ==
  /\ attempts' = attempts + 1
  /\ IF out_of_range(guess, difficulty) THEN reject_guess
     ELSE IF cmp(guess, secret_number) = "Less" THEN hint(MsgHigher)
     ELSE IF cmp(guess, secret_number) = "Greater" THEN hint(MsgLower)
     ELSE \E instant \in Instants(start_time), w \in WriteOutcomes :
            win(attempts + 1, instant, w)

\* Mutant of already_won: the `!self.game_won` test is missing, a guess in
\* a won round is played like any other.
already_won_replays(guess) == play(guess)

\* check_guess, a well-formed guess when the round is already won: nothing
\* but the clearing of the text field.
already_won(guess) ==
  UNCHANGED <<attempts, message, game_won, high_scores, highscore_file, wins,
              save_log, save_result>>

\* Mutant of invalid_format: the attempt is charged before the text is
\* parsed.
invalid_format_charged ==
  /\ message' = MsgInvalid
  /\ attempts' = attempts + 1
  /\ UNCHANGED <<game_won, high_scores, highscore_file, wins, save_log, save_result>>

\* check_guess, the text does not parse.
invalid_format ==
  /\ message' = MsgInvalid
  /\ UNCHANGED <<attempts, game_won, high_scores, highscore_file, wins,
                 save_log, save_result>>

\* GuessingGame::check_guess with self.current_guess = t on entry.
check_guess(t) ==
  LET parsed == parse_u32(t) IN
  /\ IF parsed.ok THEN
       IF ~game_won THEN play(parsed.val) ELSE already_won(parsed.val)
     ELSE invalid_format
  /\ current_guess' = <<>>
  /\ UNCHANGED <<secret_number, difficulty, start_time>>

\* ------------------------------------------------------------------------
\* GuessingGame::update: one action per widget event
\* ------------------------------------------------------------------------
\* Mutant of ClickDifficulty: the tier is set and no round is started.
ClickDifficulty_keeps_round(d) ==
  IF ~game_won THEN
    /\ difficulty' = d
    /\ UNCHANGED <<secret_number, current_guess, message, attempts, game_won,
                   start_time, high_scores, highscore_file, history>>
  ELSE UNCHANGED vars

\* Mutant of ClickDifficulty: the `!self.game_won` test is missing.
ClickDifficulty_unguarded(d) ==
  /\ difficulty' = d
  /\ new_game(d)
  /\ RoundHistoryReset
  /\ UNCHANGED <<high_scores, highscore_file, wins, store_fresh>>

\* A difficulty button: `clicked() && !self.game_won` sets the tier and
\* starts a round; a click on a won round does nothing.
ClickDifficulty(d) ==
  IF ~game_won THEN
    /\ difficulty' = d
    /\ new_game(d)
    /\ RoundHistoryReset
    /\ UNCHANGED <<high_scores, highscore_file, wins, store_fresh>>
  ELSE UNCHANGED vars

ClickEasy == ClickDifficulty(Easy)
ClickMedium == ClickDifficulty(Medium)
ClickHard == ClickDifficulty(Hard)

\* The guess t is well formed and the round is still open: it costs a turn.
Charged(t) == Parsed[t].ok /\ ~game_won

\* The guess t would win the round.
Winning(t) == Charged(t) /\ Parsed[t].val = secret_number

\* The player has typed t into the text field and presses Guess (or Enter).
ClickGuess(t) ==
  /\ Charged(t) => attempts < MaxAttempts
  /\ Winning(t) => wins < MaxWins
  /\ check_guess(t)
  /\ wellformed' = IF Charged(t) THEN wellformed + 1 ELSE wellformed
  /\ submitted' = Submission(t)
  /\ UNCHANGED store_fresh

Guess == \E t \in GuessTexts : ClickGuess(t)

\* The New Game button.
ClickNewGame ==
  /\ new_game(difficulty)
  /\ RoundHistoryReset
  /\ UNCHANGED <<difficulty, high_scores, highscore_file, wins, store_fresh>>

Next ==
  \/ ClickEasy
  \/ ClickMedium
  \/ ClickHard
  \/ Guess
  \/ ClickNewGame

Spec == Init /\ [][Next]_vars

\* ------------------------------------------------------------------------
\* Properties
\* ------------------------------------------------------------------------
\* Ascending by (attempts, seconds): no entry compares less than the one
\* before it.
IsRanked(s) == \A i \in 1..(Len(s) - 1) : ~ScoreLess(s[i + 1], s[i])

Leaderboard(s) == Len(s) <= TopN /\ IsRanked(s)

\* C1: after a successful save_score, whatever the store held before, the
\* persisted leaderboard (and the one reloaded for display) has at most 5
\* entries and is ranked ascending by (attempts, seconds); and when the store
\* was absent or empty at startup, every leaderboard ever persisted or
\* displayed is.
C1_RankingInvariant ==
  /\ save_result = "ok" =>
       /\ highscore_file.state = "valid"
       /\ Leaderboard(highscore_file.scores)
       /\ high_scores = highscore_file.scores
  /\ store_fresh =>
       /\ highscore_file.state = "valid" => Leaderboard(highscore_file.scores)
       /\ Leaderboard(high_scores)

\* A score was saved into the store that started with six unranked entries.
C1_Witness ==
  /\ save_result = "ok"
  /\ ~store_fresh
  /\ Len(highscore_file.scores) = TopN
  /\ \E i \in 1..TopN : highscore_file.scores[i] = HighScore(1, 0, Medium, 0)

\* C2: in an open round, a guess whose text is the decimal form of the
\* secret yields Correct and sets game_won; and no guess submission, whatever
\* its text, changes secret_number.
C2_SecretGuessWins ==
  submitted.class # "none" =>
    /\ secret_number = submitted.before.secret_number
    /\ (submitted.exact /\ ~submitted.before.game_won) =>
         /\ game_won
         /\ message.kind = "Correct"
         /\ message.n = submitted.before.attempts + 1

\* The secret's own text, submitted after a first charged guess, won.
C2_Witness ==
  /\ submitted.exact
  /\ ~submitted.before.game_won
  /\ submitted.before.attempts = 1
  /\ game_won

\* C3: a guess whose text does not parse yields InvalidFormat and leaves
\* attempts, the secret, game_won, the difficulty, the start time and the
\* leaderboard (displayed and persisted) as they were.
C3_InvalidFormatKeepsRound ==
  submitted.class = "malformed" =>
    /\ message = MsgInvalid
    /\ attempts = submitted.before.attempts
    /\ secret_number = submitted.before.secret_number
    /\ game_won = submitted.before.game_won
    /\ difficulty = submitted.before.difficulty
    /\ start_time = submitted.before.start_time
    /\ high_scores = submitted.before.high_scores
    /\ highscore_file = submitted.before.highscore_file

\* A malformed guess on a fresh round: attempts is still 0.
C3_Witness ==
  /\ submitted.class = "malformed"
  /\ message = MsgInvalid
  /\ attempts = 0
  /\ ~game_won

\* C4: in an open round, a guess that parses and lies outside [1, difficulty]
\* yields OutOfRange, adds exactly 1 to attempts and leaves the secret,
\* game_won, the difficulty and the leaderboard as they were (it gets no
\* hint and cannot win: it is not compared with the secret).
C4_OutOfRangeCharged ==
  submitted.class \in {"below_range", "above_range"} =>
    /\ message = MsgRange(difficulty)
    /\ attempts = submitted.before.attempts + 1
    /\ secret_number = submitted.before.secret_number
    /\ ~game_won
    /\ difficulty = submitted.before.difficulty
    /\ high_scores = submitted.before.high_scores
    /\ highscore_file = submitted.before.highscore_file
    /\ save_log = submitted.before.save_log

\* On Medium, a first guess beyond 100 was refused and charged.
C4_Witness ==
  /\ submitted.class = "above_range"
  /\ submitted.before.attempts = 0
  /\ difficulty = Medium
  /\ message = MsgRange(Medium)
  /\ attempts = 1

\* C5: in an open round, an in-range guess g against secret s yields Higher
\* (TooLow) when g < s, Lower (TooHigh) when g > s and Correct when g = s;
\* in the two unequal cases game_won stays false and no score is recorded.
C5_Comparison ==
    /\ submitted.class = "below_secret" =>
         /\ message = MsgHigher
         /\ ~game_won
         /\ save_log = submitted.before.save_log
         /\ highscore_file = submitted.before.highscore_file
         /\ high_scores = submitted.before.high_scores
    /\ submitted.class = "above_secret" =>
         /\ message = MsgLower
         /\ ~game_won
         /\ save_log = submitted.before.save_log
         /\ highscore_file = submitted.before.highscore_file
         /\ high_scores = submitted.before.high_scores
    /\ submitted.class = "secret" =>
         /\ message.kind = "Correct"
         /\ game_won

\* A second guess, above the secret, got "Lower!"; the round goes on.
C5_Witness ==
  /\ submitted.class = "above_secret"
  /\ submitted.before.attempts = 1
  /\ message = MsgLower
  /\ ~game_won

\* C6: attempts equals the number of well-formed guesses submitted since the
\* round started while it was not yet won; malformed guesses, and guesses
\* after the win, are not counted.
C6_AttemptsCountWellFormed == attempts = wellformed

\* Two guesses were charged and the malformed guess after them was not.
C6_Witness ==
  /\ attempts = 2
  /\ wellformed = 2
  /\ submitted.class = "malformed"

\* C7: the secret always lies in [1, difficulty], and the difficulty is one
\* of the three tier bounds.
C7_SecretInTier ==
  /\ difficulty \in Tiers
  /\ 1 <= secret_number
  /\ secret_number <= difficulty

\* After a change from Medium to Easy the secret is the top of Easy.
C7_Witness ==
  /\ difficulty = Easy
  /\ secret_number = Easy
  /\ attempts = 0

\* C8 (as claimed): once the round is won, a further guess submission,
\* well formed or not, changes neither attempts, game_won, the secret, the
\* leaderboard nor the outcome on display.
C8_WonGuessIsNoOp ==
  [][\A t \in GuessTexts :
       (game_won /\ ClickGuess(t)) =>
         UNCHANGED <<attempts, game_won, secret_number, high_scores,
                     highscore_file, message>>]_vars

\* C9: game_won turns true only in a guess whose parsed value is the secret;
\* neither a guess nor a difficulty button turns it false; it turns false
\* only through the New Game button, which also sets attempts to 0.
C9_RoundStateMachine ==
  [][/\ (~game_won /\ game_won') =>
          \E t \in GuessTexts :
            /\ Parsed[t].ok
            /\ Parsed[t].val = secret_number
            /\ ClickGuess(t)
     /\ (game_won /\ ~game_won') =>
          /\ ClickNewGame
          /\ attempts' = 0]_vars

\* A round started with New Game after a won one.
C9_Witness ==
  /\ wins = 1
  /\ ~game_won
  /\ attempts = 0
  /\ message.kind = "Prompt"

\* C10: save_score has been called exactly once in a round that is won, with
\* that round's attempts and difficulty, and not at all in a round that is
\* not won.
C10_OneScorePerWin ==
  IF game_won
  THEN /\ Len(save_log) = 1
       /\ save_log[1].attempts = attempts
       /\ save_log[1].difficulty = difficulty
  ELSE save_log = <<>>

\* A Hard round won on the second guess, its score handed over once.
C10_Witness ==
  /\ game_won
  /\ Len(save_log) = 1
  /\ save_log[1].attempts = 2
  /\ save_log[1].difficulty = Hard

\* The state right after the guess that won the round.
JustWon == submitted.class = "secret"

\* The store as that guess found it, and what it decoded to.
StoreBefore == submitted.before.highscore_file

BoardBefore == IF StoreBefore.state = "valid" THEN StoreBefore.scores ELSE <<>>

\* The score of the round just won.
NewScore == save_log[1]

\* C11: when the load in save_score succeeded and the write failed, the board
\* on display after the win is the one computed before the write: the old
\* entries plus the new score, sorted and truncated to 5.
C11_FailedWriteStillShown ==
  (JustWon /\ save_result = "write") =>
    high_scores = truncate(sort_by(Append(BoardBefore, NewScore)), TopN)

\* C11, as the code has it: when the write in save_score failed, the board
\* on display after the win is the one displayed before it, and the new
\* score is not on it.
C11_FailedWriteKeepsBoard ==
  (JustWon /\ save_result = "write") =>
    /\ high_scores = submitted.before.high_scores
    /\ \A i \in 1..Len(high_scores) : high_scores[i] # NewScore

\* The write failed for a score that would have stood first on the full
\* board, which is displayed as before.
C11_Witness ==
  /\ JustWon
  /\ save_result = "write"
  /\ BoardBefore = StoreFull
  /\ ScoreLess(NewScore, StoreFull[1])
  /\ high_scores = StoreFull

\* C12: a guess equal to the secret ends the round won, with the Correct
\* message carrying the round's attempts, also when the store did not
\* deserialize or the write failed.
C12_WinDespiteStoreFailure ==
  (JustWon /\ save_result \in {"load", "write"}) =>
    /\ game_won
    /\ message.kind = "Correct"
    /\ message.n = attempts
    /\ attempts = submitted.before.attempts + 1

\* A round won on a store that does not deserialize.
C12_Witness ==
  /\ JustWon
  /\ game_won
  /\ StoreBefore = FileCorrupt
  /\ save_result = "load"
  /\ message.kind = "Correct"

\* C13: when the file does not deserialize, load_high_scores is Err, and
\* save_score is Err of that load: the file is left as it was and the new
\* score is neither stored nor put on display.
C13_CorruptStoreUntouched ==
  /\ ~load_high_scores(FileCorrupt).ok
  /\ (JustWon /\ StoreBefore.state = "corrupt") =>
       /\ save_result = "load"
       /\ highscore_file = StoreBefore
       /\ high_scores = submitted.before.high_scores

\* A round won with two attempts on a corrupt store, which is corrupt still.
C13_Witness ==
  /\ JustWon
  /\ StoreBefore = FileCorrupt
  /\ highscore_file = FileCorrupt
  /\ NewScore.attempts = 2
  /\ high_scores = <<>>

\* s without its k-th entry.
Without(s, k) == SubSeq(s, 1, k - 1) \o SubSeq(s, k + 1, Len(s))

\* C14: a score saved into a full, ranked board of 5: when it compares less
\* than the fifth entry, the board afterwards is ranked, holds the new score
\* and the former first four in their order; otherwise the board is as it
\* was and the new score is not on it.
C14_InsertIntoFullBoard ==
  (/\ JustWon
   /\ save_result = "ok"
   /\ Len(BoardBefore) = TopN
   /\ IsRanked(BoardBefore)) =>
    /\ high_scores = highscore_file.scores
    /\ IF ScoreLess(NewScore, BoardBefore[TopN])
       THEN /\ Len(high_scores) = TopN
            /\ IsRanked(high_scores)
            /\ \E k \in 1..TopN :
                 /\ high_scores[k] = NewScore
                 /\ Without(high_scores, k) = SubSeq(BoardBefore, 1, TopN - 1)
       ELSE high_scores = BoardBefore

\* A score level with the fifth entry of the full board was saved, and is
\* not on the board.
C14_Witness ==
  /\ JustWon
  /\ save_result = "ok"
  /\ BoardBefore = StoreFull
  /\ NewScore.attempts = StoreFull[TopN].attempts
  /\ NewScore.seconds = StoreFull[TopN].seconds
  /\ high_scores = StoreFull

SameKey(a, b) == ~ScoreLess(a, b) /\ ~ScoreLess(b, a)

\* C15: after a successful save the new score stands behind every entry on
\* the board with the same (attempts, seconds), and entries with the same
\* key that were on the board before keep their order.
C15_StableRanking ==
  (JustWon /\ save_result = "ok") =>
    LET now == highscore_file.scores IN
    /\ \A i, j \in 1..Len(now) :
         (now[j] = NewScore /\ i # j /\ SameKey(now[i], NewScore)) => i < j
    /\ \A p, q \in 1..Len(BoardBefore) : \A i, j \in 1..Len(now) :
         (/\ p < q
          /\ SameKey(BoardBefore[p], BoardBefore[q])
          /\ now[i] = BoardBefore[p]
          /\ now[j] = BoardBefore[q]) => i < j

\* A score level with the second and third entry of the full board stands
\* fourth, behind both.
C15_Witness ==
  /\ JustWon
  /\ save_result = "ok"
  /\ BoardBefore = StoreFull
  /\ SameKey(NewScore, StoreFull[2])
  /\ high_scores[2] = StoreFull[2]
  /\ high_scores[3] = StoreFull[3]
  /\ high_scores[4] = NewScore

\* C16: load_high_scores leaves the file as it is, and a second load of it
\* gives what the first one gave; until a score is saved the file is the one
\* found at startup, where it was loaded.
C16_LoadReadOnly ==
  LET first == load_high_scores(highscore_file)
      second == load_high_scores(first.file)
  IN
  /\ first.file = highscore_file
  /\ second = first
  /\ wins = 0 => highscore_file \in InitStores

\* A round under way on a store that was absent at startup and still is.
C16_Witness ==
  /\ wins = 0
  /\ attempts > 0
  /\ highscore_file = FileAbsent
  /\ high_scores = <<>>

\* C17: an absent file loads as the empty board, not as an error; a score
\* saved on an absent file fails only in the write, and when it is saved the
\* file and the board on display hold exactly that score.
C17_AbsentStoreIsEmpty ==
  /\ load_high_scores(FileAbsent).ok
  /\ load_high_scores(FileAbsent).val = <<>>
  /\ (wins = 0 /\ highscore_file = FileAbsent) => high_scores = <<>>
  /\ (JustWon /\ StoreBefore = FileAbsent) =>
       /\ save_result \in {"ok", "write"}
       /\ save_result = "ok" =>
            /\ highscore_file = FileValid(<<NewScore>>)
            /\ high_scores = <<NewScore>>

\* The first score saved on an absent file.
C17_Witness ==
  /\ JustWon
  /\ StoreBefore = FileAbsent
  /\ save_result = "ok"
  /\ highscore_file.state = "valid"
  /\ high_scores = <<NewScore>>

\* An optional sign and one digit or more.
IsIntegerText(t) ==
  LET digits == IF t # <<>> /\ Head(t) \in {"+", "-"} THEN Tail(t) ELSE t IN
    /\ digits # <<>>
    /\ \A i \in 1..Len(digits) : IsDigit(digits[i])

\* The integer of text t is not one of 1..d.
OutsideTier(t, d) == IsIntegerText(t) /\ ~(Parsed[t].ok /\ Parsed[t].val \in 1..d)

\* C18: in an open round every text that is an integer outside 1..difficulty,
\* the negative ones included, gets the range message and is charged one
\* attempt.
C18_IntegerOutsideTierCharged ==
  [][\A t \in GuessTexts :
       (~game_won /\ OutsideTier(t, difficulty) /\ ClickGuess(t)) =>
         /\ message' = MsgRange(difficulty)
         /\ attempts' = attempts + 1]_vars

\* C19: under the tier chosen, check_guess and get_guess both take exactly
\* the numbers 1..difficulty.
C19_TierBoundOnEveryPath ==
  \A n \in GuessNumbers :
    /\ ~out_of_range(n, difficulty) <=> n \in 1..difficulty
    /\ get_guess(Append(to_string(n), "\n")).kind = "Ok" <=> n \in 1..difficulty

\* C20: whenever the file loads, the board on display is what it loads to;
\* and a save that failed leaves the board on display as it was.
C20_BoardMirrorsStore ==
  /\ load_high_scores(highscore_file).ok =>
       high_scores = load_high_scores(highscore_file).val
  /\ (JustWon /\ save_result # "ok") =>
       high_scores = submitted.before.high_scores

\* A score saved into the store of six unranked entries, and the board on
\* display reloaded from it.
C20_Witness ==
  /\ JustWon
  /\ save_result = "ok"
  /\ StoreBefore = FileValid(StoreUnsorted)
  /\ high_scores = highscore_file.scores
  /\ high_scores # submitted.before.high_scores

====
